---- MODULE Spec2Model ----
(* A model of PyTorch_Template/agent.py: the BaseAgent training agent, its   *)
(* checkpoint save/load, its train/validation step and its logging.          *)
EXTENDS Integers, Sequences, FiniteSets, TLC

VARIABLES clock, net, optimizer, scheduler, files, train_tb, val_tb,
          last, saved, aborted, calls, forwardFilled, dataParallel,
          lr_step_size

vars == <<clock, net, optimizer, scheduler, files, train_tb, val_tb,
          last, saved, aborted, calls, forwardFilled, dataParallel,
          lr_step_size>>

(* ---------------------------------------------------------------------- *)
(* Bounds                                                                  *)
(* ---------------------------------------------------------------------- *)
MaxCalls == 3        \* number of agent/driver calls in one behaviour
MaxName == 1         \* integer checkpoint names range over 0..MaxName
MaxStepSize == 2     \* config.lr_step_size ranges over 1..MaxStepSize

(* ---------------------------------------------------------------------- *)
(* Strings are sequences of tokens; str.format and os.path.join are        *)
(* concatenations of token sequences.                                      *)
(* ---------------------------------------------------------------------- *)
Digit == <<"0", "1", "2", "3", "4", "5", "6", "7", "8", "9">>

RECURSIVE IntStr(_)
IntStr(n) == IF n < 10 THEN <<Digit[n + 1]>>
             ELSE IntStr(n \div 10) \o <<Digit[(n % 10) + 1]>>

\* the values a caller can pass as `name`, each with its str() rendering
NoneName == [t |-> "none", s |-> <<"None">>]
StrName(toks) == [t |-> "str", s |-> toks]
IntName(n) == [t |-> "int", s |-> IntStr(n)]

Names == {NoneName, StrName(<<"latest">>), StrName(<<"best">>)}
           \cup {IntName(n) : n \in 0..MaxName}

ModelDir == <<"model_dir", "/">>
PathJoin(dir, file) == dir \o file

\* save_ckpt, lines 55-58
SavePath(name, clk) ==
    IF name.t = "none"
    THEN PathJoin(ModelDir, <<"ckpt_epoch">> \o IntStr(clk.epoch) \o <<".pth">>)
    ELSE PathJoin(ModelDir, name.s \o <<".pth">>)

LoadPathNoLatest(name) ==
    PathJoin(ModelDir, <<"ckpt_epoch">> \o name.s \o <<".pth">>)

\* load_ckpt, lines 78-79
LoadPath(name) ==
    LET n == IF name.t = "str" /\ name.s = <<"latest">>
             THEN name.s
             ELSE <<"ckpt_epoch">> \o name.s
    IN PathJoin(ModelDir, n \o <<".pth">>)

(* ---------------------------------------------------------------------- *)
(* The file system under model_dir: a set of directory entries.            *)
(* ---------------------------------------------------------------------- *)
Exists(fs, path) == \E f \in fs : f.path = path
ReadFile(fs, path) == (CHOOSE f \in fs : f.path = path).data
WriteFileKeeping(fs, path, data) ==
    fs \cup {[path |-> path, data |-> data]}

\* torch.save opens the path for writing: an existing file is replaced
WriteFile(fs, path, data) ==
    {f \in fs : f.path # path} \cup {[path |-> path, data |-> data]}

(* ---------------------------------------------------------------------- *)
(* TrainClock (utils.TrainClock)                                           *)
(* ---------------------------------------------------------------------- *)
\* epochs are counted from 0 or from 1; both conventions are covered
FirstEpochs == {0, 1}
NewClock(e) == [epoch |-> e, step |-> 0]
make_checkpoint(clk) == [epoch |-> clk.epoch, step |-> clk.step]
restore_checkpoint(clk, d) == [clk EXCEPT !.epoch = d.epoch, !.step = d.step]

(* ---------------------------------------------------------------------- *)
(* Optimizer and scheduler.  The learning rate is lr * gamma^decays; the   *)
(* model keeps the exponent.                                               *)
(* ---------------------------------------------------------------------- *)
StepLRDecays(last_epoch, step_size) == last_epoch \div step_size

optimizer_state_dict(o) == [state |-> o.state, param_groups |-> o.lr]
optimizer_load_state_dict(o, d) == [o EXCEPT !.state = d.state, !.lr = d.param_groups]
scheduler_state_dict(s) == [step_size |-> s.step_size, last_epoch |-> s.last_epoch]
scheduler_load_state_dict(s, d) ==
    [s EXCEPT !.step_size = d.step_size, !.last_epoch = d.last_epoch]

Event(e, a) == [ev |-> e, arg |-> a]

\* what the last call was and how it ended (raised = "none": normal return)
Call(op, name, path, raised, msg, trace) ==
    [op |-> op, name |-> name, path |-> path, raised |-> raised,
     msg |-> msg, trace |-> trace]

(* ---------------------------------------------------------------------- *)
(* Network: device residency, mode, parameters, gradient.  The parameters  *)
(* are the sequence of gradients applied so far; grad = 0 is "cleared".    *)
(* ---------------------------------------------------------------------- *)
Cpu(n) == [n EXCEPT !.device = "cpu"]
Cuda(n) == [n EXCEPT !.device = "cuda"]
model_state_dict(n) == [params |-> n.params, device |-> n.device]
load_state_dict(n, d) == [n EXCEPT !.params = d.params]

Init ==
    /\ clock \in {NewClock(e) : e \in FirstEpochs}
    /\ dataParallel \in BOOLEAN
    /\ forwardFilled \in BOOLEAN
    /\ lr_step_size \in 1..MaxStepSize
    /\ net = [device |-> "cuda", training |-> TRUE, params |-> <<>>, grad |-> 0]
    /\ optimizer = [lr |-> 0, state |-> 0]
    /\ scheduler = [step_size |-> lr_step_size, last_epoch |-> 0]
    /\ files = {}
    /\ train_tb = <<>>
    /\ val_tb = <<>>
    /\ last = Call("__init__", NoneName, <<>>, "none", <<>>, <<>>)
    /\ saved = {}
    /\ aborted = FALSE
    /\ calls = 0

Config == <<forwardFilled, dataParallel, lr_step_size>>

(* ---------------------------------------------------------------------- *)
(* save_ckpt                                                               *)
(* ---------------------------------------------------------------------- *)
\* the record handed to torch.save; net.cpu() runs while it is built
Checkpoint(clk, n, o, s) ==
    [clock |-> make_checkpoint(clk),
     model_state_dict |-> model_state_dict(Cpu(n)),
     optimizer_state_dict |-> optimizer_state_dict(o),
     scheduler_state_dict |-> scheduler_state_dict(s)]

\* line 74
RestoreDeviceSkipped(n) == n
RestoreDevice(n) == Cuda(n)

\* history: the agent state at the time of the last save to each path
Remember(h, path) ==
    {x \in h : x.path # path}
      \cup {[path |-> path, clock |-> clock, optimizer |-> optimizer,
             scheduler |-> scheduler, params |-> net.params]}

\* ioOk = FALSE: torch.save raises (the file cannot be opened for writing)
SaveCkpt(name, ioOk) ==
    LET save_path == SavePath(name, clock)
        data == Checkpoint(clock, net, optimizer, scheduler)
        \* torch.save's event carries 1 when the path already held a file
        moved == <<Event(IF dataParallel THEN "module.cpu" ELSE "cpu", 0)>>
    IN /\ calls < MaxCalls
       /\ calls' = calls + 1
       /\ IF ioOk
          THEN /\ files' = WriteFile(files, save_path, data)
               /\ net' = RestoreDevice(Cpu(net))
               /\ saved' = Remember(saved, save_path)
               /\ aborted' = aborted
               /\ last' = Call("save_ckpt", name, save_path, "none", <<>>,
                               moved \o <<Event("torch.save", IF Exists(files, save_path) THEN 1 ELSE 0),
                                          Event("cuda", 0)>>)
          ELSE /\ net' = Cpu(net)
               /\ aborted' = TRUE
               /\ last' = Call("save_ckpt", name, save_path, "OSError", <<>>, moved)
               /\ UNCHANGED <<files, saved>>
       /\ UNCHANGED <<clock, optimizer, scheduler, train_tb, val_tb, Config>>

(* ---------------------------------------------------------------------- *)
(* load_ckpt                                                               *)
(* ---------------------------------------------------------------------- *)
RestoreSchedulerSkipped(s, ckpt) == s
RestoreScheduler(s, ckpt) == scheduler_load_state_dict(s, ckpt.scheduler_state_dict)

LoadCkptSilent(name) ==
    LET load_path == LoadPath(name)
    IN /\ calls < MaxCalls
       /\ calls' = calls + 1
       /\ IF ~Exists(files, load_path)
          THEN /\ last' = Call("load_ckpt", name, load_path, "none", <<>>, <<>>)
               /\ UNCHANGED <<clock, net, optimizer, scheduler>>
          ELSE LET checkpoint == ReadFile(files, load_path)
               IN /\ net' = load_state_dict(net, checkpoint.model_state_dict)
                  /\ optimizer' = optimizer_load_state_dict(optimizer, checkpoint.optimizer_state_dict)
                  /\ scheduler' = RestoreScheduler(scheduler, checkpoint)
                  /\ clock' = restore_checkpoint(clock, checkpoint.clock)
                  /\ last' = Call("load_ckpt", name, load_path, "none", <<>>,
                                  <<Event("torch.load", 0)>>)
       /\ UNCHANGED <<files, saved, aborted, train_tb, val_tb, Config>>

LoadCkpt(name) ==
    LET load_path == LoadPath(name)
    IN /\ calls < MaxCalls
       /\ calls' = calls + 1
       /\ IF ~Exists(files, load_path)
          THEN /\ last' = Call("load_ckpt", name, load_path, "ValueError",
                               <<"Checkpoint">> \o load_path \o <<"not exists.">>, <<>>)
               /\ UNCHANGED <<clock, net, optimizer, scheduler>>
          ELSE LET checkpoint == ReadFile(files, load_path)
               IN /\ net' = load_state_dict(net, checkpoint.model_state_dict)
                  /\ optimizer' = optimizer_load_state_dict(optimizer, checkpoint.optimizer_state_dict)
                  /\ scheduler' = RestoreScheduler(scheduler, checkpoint)
                  /\ clock' = restore_checkpoint(clock, checkpoint.clock)
                  /\ last' = Call("load_ckpt", name, load_path, "none", <<>>,
                                  <<Event("torch.load", 0)>>)
       /\ UNCHANGED <<files, saved, aborted, train_tb, val_tb, Config>>

(* ---------------------------------------------------------------------- *)
(* forward, update_network, record_losses                                  *)
(* ---------------------------------------------------------------------- *)
\* a loss dictionary is the sequence of its items in insertion order
Item(k, v) == [key |-> k, val |-> v]
LossDicts == {<<>>, <<Item("mse", 2)>>, <<Item("a", 1), Item("b", 2)>>}

\* the stub forward (`pass`) returns None; a filled-in forward returns
\* (outputs, losses) and changes nothing
Forward(losses) == IF forwardFilled
                   THEN [none |-> FALSE, losses |-> losses]
                   ELSE [none |-> TRUE, losses |-> <<>>]

\* sum(loss_dict.values()): starts from the integer 0
RECURSIVE SumValues(_)
SumValues(d) == IF d = <<>> THEN 0 ELSE SumValues(SubSeq(d, 1, Len(d) - 1)) + d[Len(d)].val

ZeroGrad(n) == [n EXCEPT !.grad = 0]
\* backward accumulates into the gradient
Backward(n, loss) == [n EXCEPT !.grad = @ + loss]
OptimizerStep(n) == [n EXCEPT !.params = Append(@, n.grad)]

UpdateNetworkNoZeroGrad(n, o, loss_dict) ==
    LET loss == SumValues(loss_dict)
        n1 == n
    IN IF loss_dict = <<>>
       THEN [net |-> n1, optimizer |-> o, raised |-> "AttributeError",
             trace |-> <<Event("zero_grad", 0)>>]
       ELSE [net |-> OptimizerStep(Backward(n1, loss)),
             optimizer |-> [o EXCEPT !.state = @ + 1],
             raised |-> "none",
             trace |-> <<Event("zero_grad", 0), Event("backward", loss), Event("step", 0)>>]

\* with no loss term the sum is the int 0, which has no backward()
UpdateNetwork(n, o, loss_dict) ==
    LET loss == SumValues(loss_dict)
        n1 == ZeroGrad(n)
    IN IF loss_dict = <<>>
       THEN [net |-> n1, optimizer |-> o, raised |-> "AttributeError",
             trace |-> <<Event("zero_grad", 0)>>]
       ELSE [net |-> OptimizerStep(Backward(n1, loss)),
             optimizer |-> [o EXCEPT !.state = @ + 1],
             raised |-> "none",
             trace |-> <<Event("zero_grad", 0), Event("backward", loss), Event("step", 0)>>]

Scalar(tag, value, global_step) == [tag |-> tag, value |-> value, step |-> global_step]
Scalars(loss_dict, global_step) ==
    [i \in 1..Len(loss_dict) |-> Scalar(loss_dict[i].key, loss_dict[i].val, global_step)]

RecordLossesSwapped(tt, vt, loss_dict, mode, global_step) ==
    IF mode # "train"
    THEN [train |-> tt \o Scalars(loss_dict, global_step), val |-> vt,
          trace |-> [i \in 1..Len(loss_dict) |-> Event("train_tb.add_scalar", global_step)]]
    ELSE [train |-> tt, val |-> vt \o Scalars(loss_dict, global_step),
          trace |-> [i \in 1..Len(loss_dict) |-> Event("val_tb.add_scalar", global_step)]]

RecordLosses(tt, vt, loss_dict, mode, global_step) ==
    IF mode = "train"
    THEN [train |-> tt \o Scalars(loss_dict, global_step), val |-> vt,
          trace |-> [i \in 1..Len(loss_dict) |-> Event("train_tb.add_scalar", global_step)]]
    ELSE [train |-> tt, val |-> vt \o Scalars(loss_dict, global_step),
          trace |-> [i \in 1..Len(loss_dict) |-> Event("val_tb.add_scalar", global_step)]]

(* ---------------------------------------------------------------------- *)
(* train_func, val_func                                                    *)
(* ---------------------------------------------------------------------- *)
TrainFunc(losses) ==
    LET n1 == [net EXCEPT !.training = TRUE]
        r == Forward(losses)
        u == UpdateNetwork(n1, optimizer, r.losses)
        w == RecordLosses(train_tb, val_tb, r.losses, "train", clock.step)
        begun == <<Event("train", 0), Event("forward", 0)>>
    IN /\ calls < MaxCalls
       /\ calls' = calls + 1
       /\ IF r.none
          THEN \* unpacking None into (outputs, losses)
               /\ net' = n1
               /\ last' = Call("train_func", NoneName, <<>>, "TypeError", <<>>, begun)
               /\ UNCHANGED <<optimizer, train_tb, val_tb>>
          ELSE IF u.raised # "none"
          THEN /\ net' = u.net
               /\ optimizer' = u.optimizer
               /\ last' = Call("train_func", NoneName, <<>>, u.raised, <<>>, begun \o u.trace)
               /\ UNCHANGED <<train_tb, val_tb>>
          ELSE /\ net' = u.net
               /\ optimizer' = u.optimizer
               /\ train_tb' = w.train
               /\ val_tb' = w.val
               /\ last' = Call("train_func", NoneName, <<>>, "none", <<>>,
                               begun \o u.trace \o w.trace)
       /\ UNCHANGED <<clock, scheduler, files, saved, aborted, Config>>

ValFuncUpdating(losses) ==
    LET n1 == [net EXCEPT !.training = FALSE]
        r == Forward(losses)
        u == UpdateNetwork(n1, optimizer, r.losses)
        w == RecordLosses(train_tb, val_tb, r.losses, "validation", clock.step)
        begun == <<Event("eval", 0), Event("forward", 0)>>
    IN /\ calls < MaxCalls
       /\ calls' = calls + 1
       /\ IF r.none
          THEN /\ net' = n1
               /\ last' = Call("val_func", NoneName, <<>>, "TypeError", <<>>, begun)
               /\ UNCHANGED <<optimizer, train_tb, val_tb>>
          ELSE /\ net' = u.net
               /\ optimizer' = u.optimizer
               /\ train_tb' = w.train
               /\ val_tb' = w.val
               /\ last' = Call("val_func", NoneName, <<>>, "none", <<>>, begun \o w.trace)
       /\ UNCHANGED <<clock, scheduler, files, saved, aborted, Config>>

ValFunc(losses) ==
    LET n1 == [net EXCEPT !.training = FALSE]
        r == Forward(losses)
        w == RecordLosses(train_tb, val_tb, r.losses, "validation", clock.step)
        begun == <<Event("eval", 0), Event("forward", 0)>>
    IN /\ calls < MaxCalls
       /\ calls' = calls + 1
       /\ IF r.none
          THEN /\ net' = n1
               /\ last' = Call("val_func", NoneName, <<>>, "TypeError", <<>>, begun)
               /\ UNCHANGED <<train_tb, val_tb>>
          ELSE /\ net' = n1
               /\ train_tb' = w.train
               /\ val_tb' = w.val
               /\ last' = Call("val_func", NoneName, <<>>, "none", <<>>, begun \o w.trace)
       /\ UNCHANGED <<clock, optimizer, scheduler, files, saved, aborted, Config>>

(* ---------------------------------------------------------------------- *)
(* update_learning_rate, visualize_batch, and the driver's clock           *)
(* ---------------------------------------------------------------------- *)
SchedulerStepNext(s, o, epoch) ==
    [scheduler |-> [s EXCEPT !.last_epoch = @ + 1],
     optimizer |-> [o EXCEPT !.lr = StepLRDecays(s.last_epoch + 1, s.step_size)]]

\* scheduler.step(epoch) with an explicit epoch: the scheduler's epoch
\* becomes `epoch` and the learning rate is recomputed from it
SchedulerStep(s, o, epoch) ==
    [scheduler |-> [s EXCEPT !.last_epoch = epoch],
     optimizer |-> [o EXCEPT !.lr = StepLRDecays(epoch, s.step_size)]]

UpdateLearningRate ==
    LET r == SchedulerStep(scheduler, optimizer, clock.epoch)
    IN /\ calls < MaxCalls
       /\ calls' = calls + 1
       /\ train_tb' = Append(train_tb, Scalar("learning_rate", optimizer.lr, clock.epoch))
       /\ scheduler' = r.scheduler
       /\ optimizer' = r.optimizer
       /\ last' = Call("update_learning_rate", NoneName, <<>>, "none", <<>>,
                       <<Event("train_tb.add_scalar", clock.epoch),
                         Event("scheduler.step", clock.epoch)>>)
       /\ UNCHANGED <<clock, net, files, val_tb, saved, aborted, Config>>

VisualizeBatch ==
    /\ calls < MaxCalls
    /\ calls' = calls + 1
    /\ last' = Call("visualize_batch", NoneName, <<>>, "NotImplementedError", <<>>, <<>>)
    /\ UNCHANGED <<clock, net, optimizer, scheduler, files, train_tb, val_tb,
                   saved, aborted, Config>>

\* the training driver advances the clock: one step per batch ...
ClockTick ==
    /\ calls < MaxCalls
    /\ calls' = calls + 1
    /\ clock' = [clock EXCEPT !.step = @ + 1]
    /\ last' = Call("clock.tick", NoneName, <<>>, "none", <<>>, <<>>)
    /\ UNCHANGED <<net, optimizer, scheduler, files, train_tb, val_tb,
                   saved, aborted, Config>>

\* ... and one epoch per pass over the data
ClockTock ==
    /\ calls < MaxCalls
    /\ calls' = calls + 1
    /\ clock' = [clock EXCEPT !.epoch = @ + 1]
    /\ last' = Call("clock.tock", NoneName, <<>>, "none", <<>>, <<>>)
    /\ UNCHANGED <<net, optimizer, scheduler, files, train_tb, val_tb,
                   saved, aborted, Config>>

Next ==
    \/ \E name \in Names, ioOk \in BOOLEAN : SaveCkpt(name, ioOk)
    \/ \E name \in Names : LoadCkpt(name)
    \/ \E losses \in LossDicts : TrainFunc(losses)
    \/ \E losses \in LossDicts : ValFunc(losses)
    \/ UpdateLearningRate
    \/ VisualizeBatch
    \/ ClockTick
    \/ ClockTock

Spec == Init /\ [][Next]_vars

(* ---------------------------------------------------------------------- *)
(* Properties                                                              *)
(* ---------------------------------------------------------------------- *)
Stepped == calls' = calls + 1
Returned(op) == last.op = op /\ last.raised = "none"
HasEvent(trace, e) == \E i \in 1..Len(trace) : trace[i].ev = e
Suffix(seq, from) == SubSeq(seq, from + 1, Len(seq))

RECURSIVE SumScalars(_)
SumScalars(w) == IF w = <<>> THEN 0 ELSE SumScalars(SubSeq(w, 1, Len(w) - 1)) + w[Len(w)].value

\* C1: a load that succeeds leaves clock, optimizer and scheduler equal to
\* what they were when the loaded file was last saved, whatever train_func,
\* clock and update_learning_rate calls happened in between.
C1_RoundTrip ==
    Returned("load_ckpt") =>
        \E x \in saved : /\ x.path = last.path
                         /\ clock = x.clock
                         /\ optimizer = x.optimizer
                         /\ scheduler = x.scheduler

\* a load that took the scheduler back to epoch 0 after
\* update_learning_rate had moved it to epoch 1
C1_Witness ==
    /\ Returned("load_ckpt")
    /\ train_tb # <<>>
    /\ train_tb[Len(train_tb)] = Scalar("learning_rate", 0, 1)
    /\ scheduler.last_epoch = 0
    /\ optimizer.lr = 0

\* C2: load_ckpt of a path that does not exist raises ValueError naming the
\* path and changes none of network, optimizer, scheduler and clock.
C2_MissingCheckpointRaises ==
    [][(Stepped /\ last'.op = "load_ckpt" /\ ~Exists(files, last'.path)) =>
          /\ last'.raised = "ValueError"
          /\ Len(last'.msg) = Len(last'.path) + 2
          /\ SubSeq(last'.msg, 2, Len(last'.msg) - 1) = last'.path
          /\ UNCHANGED <<net, optimizer, scheduler, clock>>]_vars

C2_Witness ==
    /\ last.op = "load_ckpt"
    /\ last.raised = "ValueError"
    /\ files # {}
    /\ ~Exists(files, last.path)

\* C3: unless a save raised, the network is on the device between calls; a
\* save that returns leaves it on the device, having serialized the
\* parameters from host memory.
C3_DeviceResident ==
    /\ ~aborted => net.device = "cuda"
    /\ Returned("save_ckpt") =>
          /\ net.device = "cuda"
          /\ Exists(files, last.path)
          /\ ReadFile(files, last.path).model_state_dict.device = "cpu"

C3_Witness ==
    /\ Returned("save_ckpt")
    /\ dataParallel
    /\ net.params # <<>>
    /\ net.device = "cuda"

\* C4: a save leaves exactly one file at its path, holding the state at the
\* save, and leaves every other file as it was; no path has two files.
C4_OneFilePerName ==
    [][(Stepped /\ last'.op = "save_ckpt" /\ last'.raised = "none") =>
          LET p == last'.path
          IN /\ Cardinality({f \in files' : f.path = p}) = 1
             /\ \A f \in files' : f.path = p =>
                   /\ f.data.clock.epoch = clock.epoch
                   /\ f.data.clock.step = clock.step
                   /\ f.data.model_state_dict.params = net.params
                   /\ f.data.optimizer_state_dict.state = optimizer.state
                   /\ f.data.optimizer_state_dict.param_groups = optimizer.lr
                   /\ f.data.scheduler_state_dict.last_epoch = scheduler.last_epoch
             /\ {f \in files' : f.path # p} = {f \in files : f.path # p}
             /\ \A f, g \in files' : f.path = g.path => f = g]_vars

\* a save that replaced an older file of the same name
C4_Witness ==
    /\ Returned("save_ckpt")
    /\ last.name = StrName(<<"latest">>)
    /\ HasEvent(last.trace, "torch.save")
    /\ \E i \in 1..Len(last.trace) : last.trace[i] = Event("torch.save", 1)
    /\ ReadFile(files, last.path).clock.step > 0

\* C5: train_func leaves the network in training mode; val_func leaves it in
\* evaluation mode and changes no parameter, gradient or optimizer state.
C5_Modes ==
    [][Stepped =>
          /\ last'.op = "train_func" => net'.training
          /\ last'.op = "val_func" =>
                /\ ~net'.training
                /\ net'.params = net.params
                /\ net'.grad = net.grad
                /\ optimizer' = optimizer
                /\ ~HasEvent(last'.trace, "zero_grad")
                /\ ~HasEvent(last'.trace, "backward")
                /\ ~HasEvent(last'.trace, "step")]_vars

\* a validation step taken while a gradient from training is present
C5_Witness ==
    /\ Returned("val_func")
    /\ ~net.training
    /\ net.grad # 0
    /\ val_tb # <<>>

\* C6 as stated: whenever update_network runs (it begins with zero_grad),
\* exactly one optimizer step follows.
C6_Original ==
    [][(Stepped /\ HasEvent(last'.trace, "zero_grad")) =>
          /\ optimizer'.state = optimizer.state + 1
          /\ HasEvent(last'.trace, "step")]_vars

\* C6 amended: a train_func that returns has cleared the gradient,
\* backpropagated the sum of the loss terms and taken one optimizer step, in
\* that order; with an empty loss dictionary update_network clears the
\* gradient and raises without a step.
C6_Amended ==
    [][(Stepped /\ last'.op = "train_func" /\ forwardFilled) =>
          LET new == Suffix(train_tb', Len(train_tb))
              total == SumScalars(new)
          IN /\ last'.raised = "none" =>
                   /\ new # <<>>
                   /\ SubSeq(last'.trace, 3, 5) =
                         <<Event("zero_grad", 0), Event("backward", total), Event("step", 0)>>
                   /\ net'.grad = total
                   /\ net'.params = Append(net.params, total)
                   /\ optimizer'.state = optimizer.state + 1
             /\ last'.raised # "none" =>
                   /\ last'.raised = "AttributeError"
                   /\ last'.trace[Len(last'.trace)] = Event("zero_grad", 0)
                   /\ net'.grad = 0
                   /\ net'.params = net.params
                   /\ optimizer' = optimizer]_vars

\* a second training step: the gradient is that of this step's total only
C6_Witness ==
    /\ Returned("train_func")
    /\ Len(net.params) = 2
    /\ net.grad = 3
    /\ net.params[1] = 2
    /\ optimizer.state = 2

\* C7: record_losses writes one entry per loss key, tagged with clock.step,
\* to the train writer in train_func and to the validation writer in
\* val_func, and nothing to the other writer.
C7_RecordLosses ==
    [][(Stepped /\ last'.op \in {"train_func", "val_func"}) =>
       \A losses \in LossDicts :
          LET OnePerKey(old, new) ==
                  /\ Len(new) = Len(old) + Len(losses)
                  /\ SubSeq(new, 1, Len(old)) = old
                  /\ \A i \in 1..Len(losses) :
                        /\ new[Len(old) + i] = Scalar(losses[i].key, losses[i].val, clock.step)
                        /\ Cardinality({j \in 1..Len(losses) :
                               new[Len(old) + j].tag = losses[i].key}) = 1
          IN /\ (TrainFunc(losses) /\ forwardFilled /\ losses # <<>>) =>
                   (OnePerKey(train_tb, train_tb') /\ val_tb' = val_tb)
             /\ (ValFunc(losses) /\ forwardFilled) =>
                   (OnePerKey(val_tb, val_tb') /\ train_tb' = train_tb)
             /\ (TrainFunc(losses) \/ ValFunc(losses)) /\ last'.raised # "none" =>
                   UNCHANGED <<train_tb, val_tb>>]_vars

C7_Witness ==
    /\ Returned("val_func")
    /\ Len(val_tb) = 2
    /\ val_tb[1].tag = "a"
    /\ val_tb[2].tag = "b"
    /\ val_tb[2].step = 1
    /\ train_tb # <<>>

\* C8 as stated: a method left unimplemented raises NotImplementedError, so
\* train_func and val_func on the stub forward end with that error.
C8_NotImplemented ==
    /\ last.op = "visualize_batch" => last.raised = "NotImplementedError"
    /\ (last.op \in {"train_func", "val_func"} /\ ~forwardFilled) =>
          last.raised = "NotImplementedError"

\* C9 as stated: every update_learning_rate advances the scheduler's epoch
\* by one.
C9_Original ==
    [][(Stepped /\ last'.op = "update_learning_rate") =>
          scheduler'.last_epoch = scheduler.last_epoch + 1]_vars

\* C9 amended: update_learning_rate logs the learning rate current before
\* the call, tagged with clock.epoch, on the train writer, then sets the
\* scheduler's epoch to clock.epoch and the learning rate to that epoch's.
C9_Amended ==
    [][(Stepped /\ last'.op = "update_learning_rate") =>
          /\ train_tb' = Append(train_tb, Scalar("learning_rate", optimizer.lr, clock.epoch))
          /\ val_tb' = val_tb
          /\ last'.trace = <<Event("train_tb.add_scalar", clock.epoch),
                             Event("scheduler.step", clock.epoch)>>
          /\ scheduler'.last_epoch = clock.epoch
          /\ optimizer'.lr = clock.epoch \div scheduler.step_size
          /\ (clock.epoch = scheduler.last_epoch => scheduler' = scheduler)]_vars

\* two calls at the same epoch 1: the scheduler's epoch is 1, not 2
C9_Witness ==
    /\ Returned("update_learning_rate")
    /\ Len(train_tb) = 2
    /\ train_tb[1] = Scalar("learning_rate", 0, 1)
    /\ train_tb[2].tag = "learning_rate"
    /\ train_tb[2].step = 1
    /\ clock.epoch = 1
    /\ scheduler.last_epoch = 1

\* C10 as stated: load_ckpt(n) right after save_ckpt(n), for a name n,
\* loads the file that save_ckpt(n) wrote.
C10_Original ==
    [][(Stepped /\ Returned("save_ckpt") /\ last.name.t # "none"
          /\ last'.op = "load_ckpt" /\ last'.name = last.name) =>
          (last'.raised = "none" /\ last'.path = last.path)]_vars

\* C10 amended: the two agree for "latest", and for save_ckpt() at epoch N
\* followed by load_ckpt(N); for any other name n, save_ckpt(n) writes
\* <n>.pth and load_ckpt(n) resolves to ckpt_epoch<n>.pth.
C10_Amended ==
    [][(Stepped /\ Returned("save_ckpt") /\ last'.op = "load_ckpt") =>
          /\ (last.name = StrName(<<"latest">>) /\ last'.name = last.name) =>
                /\ last'.raised = "none"
                /\ last'.path = last.path
                /\ last'.path = ModelDir \o <<"latest", ".pth">>
          /\ (last.name.t = "none" /\ last'.name = IntName(clock.epoch)) =>
                /\ last'.raised = "none"
                /\ last'.path = last.path
                /\ last'.path = ModelDir \o <<"ckpt_epoch">> \o IntStr(clock.epoch) \o <<".pth">>
          /\ (last.name.t # "none" /\ last.name # StrName(<<"latest">>)
                /\ last'.name = last.name) =>
                /\ last.path = ModelDir \o last.name.s \o <<".pth">>
                /\ last'.path = ModelDir \o <<"ckpt_epoch">> \o last.name.s \o <<".pth">>
                /\ last'.path # last.path
                /\ (last'.raised = "none" <=> Exists(files, last'.path))]_vars

\* load_ckpt(1) of the file that save_ckpt() wrote at epoch 1
C10_Witness ==
    /\ Returned("load_ckpt")
    /\ last.name = IntName(1)
    /\ clock.epoch = 1
    /\ Cardinality(files) = 1

====
